---- MODULE Spec2Model ----
(***************************************************************************)
(* Model of corral: the guillotine packing tree (src/src/tree2d.rs) and    *)
(* the sprite-sheet packer that drives it (src/src/packer.rs).             *)
(***************************************************************************)
EXTENDS Integers, Sequences, FiniteSets, TLC

VARIABLES
    tree,          \* the Tree2d value owned by the caller
    calls,         \* one record per insert call so far: its result, and the size it placed
    last,          \* the most recent call on the tree and what it returned
    prev,          \* the tree as it was when the most recent call started
    pc,            \* "api" for a direct user of Tree2d, else the position in run/pack
    input,         \* the images handed to ImageCollection::new
    padding,       \* pack's padding argument
    img_collection,\* the ImageCollection handed to pack
    data,          \* pack's data vector of (DataSize, img)
    flattened,     \* pack's flattened vector
    total_bb,      \* pack's bb, the total bounding box
    img_packed,    \* the sheet pack builds
    result         \* what pack returned: "Ok" or an error, "pending" before

vars == <<tree, calls, last, prev, pc, input, padding, img_collection, data,
          flattened, total_bb, img_packed, result>>

\* ---------------------------------------------------------------- bounds
MaxCanvas == 4
MaxItem == 2
MaxInserts == 3
MaxImages == 2
MaxImg == 2
MaxPad == 1
MaxSheet == 4
MaxCoord == 2
MaxExt == 2
U32Max == 3          \* the largest u32, scaled down
MaxAnyInserts == 2
MaxSeqCanvas == 3
MaxSeqItem == 2
MaxSeqInserts == 4

\* ------------------------------------------------------------- geometry
Min(a, b) == IF a <= b THEN a ELSE b
Max(a, b) == IF a >= b THEN a ELSE b

BoundingBox(x, y, width, height) ==
    [x |-> x, y |-> y, width |-> width, height |-> height]

\* a strict comparison: an item exactly as large as the box is turned away
can_contain_strict(bb, width, height) ==
    width < bb.width /\ height < bb.height

\* an off-by-one bound: an item one unit too large is let in
can_contain_loose(bb, width, height) ==
    width <= bb.width + 1 /\ height <= bb.height + 1

can_contain(bb, width, height) ==
    width <= bb.width /\ height <= bb.height

\* the extents added up instead of taken from the outermost edges
Add_sum(self, v) ==
    [x |-> Min(self.x, v.x), y |-> Min(self.y, v.y),
     width |-> self.width + v.width, height |-> self.height + v.height]

Add_from_self(self, v) ==
    [x |-> Min(self.x, v.x), y |-> Min(self.y, v.y),
     width |-> Max(self.x + self.width, v.x + v.width) - self.x,
     height |-> Max(self.y + self.height, v.y + v.height) - self.y]

Add(self, v) ==
    BoundingBox(Min(self.x, v.x),
                Min(self.y, v.y),
                Max(self.x + self.width, v.x + v.width) - Min(self.x, v.x),
                Max(self.y + self.height, v.y + v.height) - Min(self.y, v.y))

\* ----------------------------------------------------------------- tree
Leaf(bb) == [kind |-> "Leaf", bb |-> bb]

Node(bb, right, down, d) ==
    [kind |-> "Node", bb |-> bb, right |-> right, down |-> down, data |-> d]

New(width, height) == Leaf(BoundingBox(0, 0, width, height))

\* the down strip starts at the top of the box instead of below the item
partition_down_at_top(d, bb, width, height) ==
    LET width_remainder == bb.width - width
        height_remainder == bb.height - height
        bb_right == IF height_remainder > width_remainder
                    THEN BoundingBox(bb.x + width, bb.y, width_remainder, height)
                    ELSE BoundingBox(bb.x + width, bb.y, width_remainder, bb.height)
        bb_down == IF height_remainder > width_remainder
                   THEN BoundingBox(bb.x, bb.y, bb.width, height_remainder)
                   ELSE BoundingBox(bb.x, bb.y, width, height_remainder)
    IN  Node(bb, Leaf(bb_right), Leaf(bb_down), d)

\* the tie height_remainder = width_remainder takes the first split
partition_tie_first(d, bb, width, height) ==
    LET width_remainder == bb.width - width
        height_remainder == bb.height - height
        bb_right == IF height_remainder >= width_remainder
                    THEN BoundingBox(bb.x + width, bb.y, width_remainder, height)
                    ELSE BoundingBox(bb.x + width, bb.y, width_remainder, bb.height)
        bb_down == IF height_remainder >= width_remainder
                   THEN BoundingBox(bb.x, bb.y + height, bb.width, height_remainder)
                   ELSE BoundingBox(bb.x, bb.y + height, width, height_remainder)
    IN  Node(bb, Leaf(bb_right), Leaf(bb_down), d)

\* the new node keeps the rectangle of the item, not of the leaf it replaces
partition_item_bb(d, bb, width, height) ==
    LET width_remainder == bb.width - width
        height_remainder == bb.height - height
    IN  IF height_remainder > width_remainder
        THEN Node(BoundingBox(bb.x, bb.y, width, height),
                  Leaf(BoundingBox(bb.x + width, bb.y, width_remainder, height)),
                  Leaf(BoundingBox(bb.x, bb.y + height, bb.width,
                                   height_remainder)),
                  d)
        ELSE Node(BoundingBox(bb.x, bb.y, width, height),
                  Leaf(BoundingBox(bb.x + width, bb.y, width_remainder,
                                   bb.height)),
                  Leaf(BoundingBox(bb.x, bb.y + height, width,
                                   height_remainder)),
                  d)

\* both strips run the full length of bb, so they share the corner
partition_full_strips(d, bb, width, height) ==
    Node(bb,
         Leaf(BoundingBox(bb.x + width, bb.y, bb.width - width, bb.height)),
         Leaf(BoundingBox(bb.x, bb.y + height, bb.width, bb.height - height)),
         d)

partition(d, bb, width, height) ==
    LET width_remainder == bb.width - width
        height_remainder == bb.height - height
        bb_right == IF height_remainder > width_remainder
                    THEN BoundingBox(bb.x + width, bb.y, width_remainder, height)
                    ELSE BoundingBox(bb.x + width, bb.y, width_remainder, bb.height)
        bb_down == IF height_remainder > width_remainder
                   THEN BoundingBox(bb.x, bb.y + height, bb.width, height_remainder)
                   ELSE BoundingBox(bb.x, bb.y + height, width, height_remainder)
    IN  Node(bb, Leaf(bb_right), Leaf(bb_down), d)

\* a leaf is partitioned before it is asked whether it can contain the item
RECURSIVE insert_aux_eager(_, _, _, _)
insert_aux_eager(self, width, height, d) ==
    IF self.kind = "Leaf"
    THEN [ok |-> can_contain(self.bb, width, height),
          tree |-> partition(d, self.bb, width, height)]
    ELSE IF can_contain(self.bb, width, height)
         THEN IF self.right.kind = "Node" /\ self.down.kind = "Leaf"
              THEN LET rd == insert_aux_eager(self.down, width, height, d)
                   IN  IF rd.ok
                       THEN [ok |-> TRUE,
                             tree |-> [self EXCEPT !.down = rd.tree]]
                       ELSE LET rr == insert_aux_eager(self.right, width, height, d)
                            IN  [ok |-> rr.ok,
                                 tree |-> [self EXCEPT !.down = rd.tree,
                                                       !.right = rr.tree]]
              ELSE LET rr == insert_aux_eager(self.right, width, height, d)
                   IN  IF rr.ok
                       THEN [ok |-> TRUE,
                             tree |-> [self EXCEPT !.right = rr.tree]]
                       ELSE LET rd == insert_aux_eager(self.down, width, height, d)
                            IN  [ok |-> rd.ok,
                                 tree |-> [self EXCEPT !.right = rr.tree,
                                                       !.down = rd.tree]]
         ELSE [ok |-> FALSE, tree |-> self]

\* the second child is never tried
RECURSIVE insert_aux_first_child_only(_, _, _, _)
insert_aux_first_child_only(self, width, height, d) ==
    IF self.kind = "Leaf"
    THEN IF can_contain(self.bb, width, height)
         THEN [ok |-> TRUE, tree |-> partition(d, self.bb, width, height)]
         ELSE [ok |-> FALSE, tree |-> self]
    ELSE IF can_contain(self.bb, width, height)
         THEN IF self.right.kind = "Node" /\ self.down.kind = "Leaf"
              THEN LET rd == insert_aux_first_child_only(self.down, width,
                                                         height, d)
                   IN  [ok |-> rd.ok, tree |-> [self EXCEPT !.down = rd.tree]]
              ELSE LET rr == insert_aux_first_child_only(self.right, width,
                                                         height, d)
                   IN  [ok |-> rr.ok, tree |-> [self EXCEPT !.right = rr.tree]]
         ELSE [ok |-> FALSE, tree |-> self]

\* down is tried before right in every arm
RECURSIVE insert_aux_down_first(_, _, _, _)
insert_aux_down_first(self, width, height, d) ==
    IF self.kind = "Leaf"
    THEN IF can_contain(self.bb, width, height)
         THEN [ok |-> TRUE, tree |-> partition(d, self.bb, width, height)]
         ELSE [ok |-> FALSE, tree |-> self]
    ELSE IF can_contain(self.bb, width, height)
         THEN LET rd == insert_aux_down_first(self.down, width, height, d)
              IN  IF rd.ok
                  THEN [ok |-> TRUE, tree |-> [self EXCEPT !.down = rd.tree]]
                  ELSE LET rr == insert_aux_down_first(self.right, width,
                                                       height, d)
                       IN  [ok |-> rr.ok,
                            tree |-> [self EXCEPT !.right = rr.tree]]
         ELSE [ok |-> FALSE, tree |-> self]

\* insert_aux returns the bool and, since it works on &mut self, the tree
\* it leaves behind.
RECURSIVE insert_aux(_, _, _, _)
insert_aux(self, width, height, d) ==
    IF self.kind = "Leaf"
    THEN IF can_contain(self.bb, width, height)
         THEN [ok |-> TRUE, tree |-> partition(d, self.bb, width, height)]
         ELSE [ok |-> FALSE, tree |-> self]
    ELSE IF can_contain(self.bb, width, height)
         THEN IF self.right.kind = "Node" /\ self.down.kind = "Leaf"
              THEN LET rd == insert_aux(self.down, width, height, d)
                   IN  IF rd.ok
                       THEN [ok |-> TRUE,
                             tree |-> [self EXCEPT !.down = rd.tree]]
                       ELSE LET rr == insert_aux(self.right, width, height, d)
                            IN  [ok |-> rr.ok,
                                 tree |-> [self EXCEPT !.down = rd.tree,
                                                       !.right = rr.tree]]
              ELSE LET rr == insert_aux(self.right, width, height, d)
                   IN  IF rr.ok
                       THEN [ok |-> TRUE,
                             tree |-> [self EXCEPT !.right = rr.tree]]
                       ELSE LET rd == insert_aux(self.down, width, height, d)
                            IN  [ok |-> rd.ok,
                                 tree |-> [self EXCEPT !.right = rr.tree,
                                                       !.down = rd.tree]]
         ELSE [ok |-> FALSE, tree |-> self]

insert(self, width, height, d) == insert_aux(self, width, height, d)

\* the down subtree is never visited
RECURSIVE flatten_aux_no_down(_, _)
flatten_aux_no_down(self, output) ==
    IF self.kind = "Leaf"
    THEN output
    ELSE flatten_aux_no_down(self.right,
             Append(output, [data |-> self.data, bb |-> self.bb]))

\* the down subtree is visited before the right subtree
RECURSIVE flatten_aux_down_first(_, _)
flatten_aux_down_first(self, output) ==
    IF self.kind = "Leaf"
    THEN output
    ELSE flatten_aux_down_first(self.right,
             flatten_aux_down_first(self.down,
                 Append(output, [data |-> self.data, bb |-> self.bb])))

RECURSIVE flatten_aux(_, _)
flatten_aux(self, output) ==
    IF self.kind = "Leaf"
    THEN output
    ELSE flatten_aux(self.down,
             flatten_aux(self.right,
                 Append(output, [data |-> self.data, bb |-> self.bb])))

flatten(self) == flatten_aux(self, <<>>)

\* --------------------------------------------------- direct use of Tree2d
\* the core is handed sizes with width, height > 0
Sizes == 1..MaxItem

\* the record kept of one insert call: its payload and result, and the size
\* of the item when it was placed
Call(d, width, height, ok) ==
    IF ok
    THEN [data |-> d, ok |-> TRUE, width |-> width, height |-> height]
    ELSE [data |-> d, ok |-> FALSE]

NoCollection ==
    [named_images |-> <<>>, max_width |-> 0, max_height |-> 0, num_images |-> 0]

NoImage == [width |-> 0, height |-> 0, pixels |-> {}]

Init ==
    /\ \E width \in 0..MaxCanvas, height \in 0..MaxCanvas :
          tree = New(width, height)
    /\ calls = <<>>
    /\ last = [op |-> "new"]
    /\ prev = tree
    /\ pc = "api"
    /\ input = <<>>
    /\ padding = 0
    /\ img_collection = NoCollection
    /\ data = <<>>
    /\ flattened = <<>>
    /\ total_bb = BoundingBox(0, 0, 0, 0)
    /\ img_packed = NoImage
    /\ result = "pending"

Insert(width, height) ==
    /\ pc = "api"
    /\ Len(calls) < MaxInserts
    /\ LET d == Len(calls) + 1
           r == insert(tree, width, height, d)
       IN  /\ tree' = r.tree
           /\ last' = [op |-> "insert", width |-> width, height |-> height,
                       data |-> d, ok |-> r.ok]
           /\ calls' = Append(calls, Call(d, width, height, r.ok))
    /\ prev' = tree
    /\ UNCHANGED <<pc, input, padding, img_collection, data, flattened,
                   total_bb, img_packed, result>>

\* flatten hands the nodes out and leaves an empty canvas behind
Flatten_draining ==
    /\ pc = "api"
    /\ last' = [op |-> "flatten", out |-> flatten(tree)]
    /\ prev' = tree
    /\ tree' = Leaf(tree.bb)
    /\ UNCHANGED <<calls, pc, input, padding, img_collection, data,
                   flattened, total_bb, img_packed, result>>

Flatten ==
    /\ pc = "api"
    /\ last' = [op |-> "flatten", out |-> flatten(tree)]
    /\ prev' = tree
    /\ UNCHANGED <<tree, calls, pc, input, padding, img_collection, data,
                   flattened, total_bb, img_packed, result>>

\* --------------------------------------------------------------- packer
\* a decoded image: its name stands for the pixel data, which is opaque
NamedDynamicImage(name, width, height) ==
    [name |-> name, width |-> width, height |-> height]

\* an unstable sort: of two images with the same area the later one comes first
RECURSIVE sort_by_area_unstable(_)
sort_by_area_unstable(s) ==
    IF s = <<>>
    THEN <<>>
    ELSE LET rest == sort_by_area_unstable(SubSeq(s, 1, Len(s) - 1))
             e == s[Len(s)]
             k == Cardinality({i \in DOMAIN rest :
                      rest[i].width * rest[i].height > e.width * e.height})
         IN  SubSeq(rest, 1, k) \o <<e>> \o SubSeq(rest, k + 1, Len(rest))

\* named_images.sort_by(|a, b| (b.w * b.h).cmp(&(a.w * a.h))): a stable sort
RECURSIVE sort_by_area(_)
sort_by_area(s) ==
    IF s = <<>>
    THEN <<>>
    ELSE LET rest == sort_by_area(SubSeq(s, 1, Len(s) - 1))
             e == s[Len(s)]
             k == Cardinality({i \in DOMAIN rest :
                      rest[i].width * rest[i].height >= e.width * e.height})
         IN  SubSeq(rest, 1, k) \o <<e>> \o SubSeq(rest, k + 1, Len(rest))

RECURSIVE MaxOver(_, _)
MaxOver(s, field) ==
    IF s = <<>> THEN 0
    ELSE Max(MaxOver(SubSeq(s, 1, Len(s) - 1), field), s[Len(s)][field])

ImageCollection_new(images) ==
    [named_images |-> sort_by_area(images),
     max_width |-> MaxOver(images, "width"),
     max_height |-> MaxOver(images, "height"),
     num_images |-> Len(images)]

DataSize(width, height) == [width |-> width, height |-> height]

\* the data vector pack builds from the collection
pack_data(collection, pad) ==
    [i \in DOMAIN collection.named_images |->
        [size |-> DataSize(collection.named_images[i].width + pad,
                           collection.named_images[i].height + pad),
         img |-> collection.named_images[i].name]]

\* the canvases a packing session may start from
InitialCanvas == (1..MaxSheet) \X (1..MaxSheet)

\* the canvases a retry may grow the canvas bb to, within the growth bound
GrownCanvas(bb) ==
    {c \in (1..MaxSheet) \X (1..MaxSheet) :
        /\ c[1] >= bb.width /\ c[2] >= bb.height
        /\ c[1] > bb.width \/ c[2] > bb.height}

\* the union of the rectangles of a flattened tree, folded from the first
RECURSIVE fold_union(_)
fold_union(flat) ==
    IF Len(flat) = 1
    THEN flat[1].bb
    ELSE Add(fold_union(SubSeq(flat, 1, Len(flat) - 1)), flat[Len(flat)].bb)

get_total_bounding_box(self) ==
    IF flatten(self) = <<>>
    THEN BoundingBox(0, 0, 0, 0)
    ELSE fold_union(flatten(self))

\* image::RgbaImage::new(width, height): every pixel transparent
RgbaImage_new(width, height) ==
    [width |-> width, height |-> height, pixels |-> {}]

\* image::imageops::replace(bottom, top, x, y): the pixels of top that fall
\* inside bottom are copied; the model keeps which pixels are opaque
replace(bottom, top, x, y) ==
    [bottom EXCEPT !.pixels = @ \cup
        {px \in (x..(x + top.width - 1)) \X (y..(y + top.height - 1)) :
            px[1] < bottom.width /\ px[2] < bottom.height}]

ImageOf(name) == input[name]

RECURSIVE blit_all(_, _, _)
blit_all(sheet, flat, pad) ==
    IF flat = <<>>
    THEN sheet
    ELSE blit_all(replace(sheet, ImageOf(flat[1].data),
                          flat[1].bb.x + pad, flat[1].bb.y + pad),
                  Tail(flat), pad)

InitPack ==
    /\ \E n \in 0..MaxImages :
          \E f \in [1..n -> (1..MaxImg) \X (1..MaxImg)] :
              input = [i \in 1..n |-> NamedDynamicImage(i, f[i][1], f[i][2])]
    /\ padding \in 0..MaxPad
    /\ tree = Leaf(BoundingBox(0, 0, 0, 0))    \* no tree yet
    /\ calls = <<>>
    /\ last = [op |-> "none"]
    /\ prev = tree
    /\ pc = "load"
    /\ img_collection = NoCollection
    /\ data = <<>>
    /\ flattened = <<>>
    /\ total_bb = BoundingBox(0, 0, 0, 0)
    /\ img_packed = NoImage
    /\ result = "pending"

\* load_all / the tests: ImageCollection::new(images)
Collect ==
    /\ pc = "load"
    /\ img_collection' = ImageCollection_new(input)
    /\ pc' = "pack"
    /\ UNCHANGED <<tree, calls, last, prev, input, padding, data, flattened,
                   total_bb, img_packed, result>>

\* pack: build data, create the tree
PackBegin ==
    /\ pc = "pack"
    /\ data' = pack_data(img_collection, padding)
    /\ \E c \in InitialCanvas : tree' = New(c[1], c[2])
    /\ calls' = <<>>
    /\ last' = [op |-> "new"]
    /\ prev' = tree
    /\ pc' = "insert_all"
    /\ UNCHANGED <<input, padding, img_collection, flattened, total_bb,
                   img_packed, result>>

\* insert_all: the next item of data, in order
InsertNext ==
    /\ pc = "insert_all"
    /\ Len(calls) < Len(data)
    /\ LET item == data[Len(calls) + 1]
           r == insert(tree, item.size.width, item.size.height, item.img)
       IN  /\ tree' = r.tree
           /\ last' = [op |-> "insert", width |-> item.size.width,
                       height |-> item.size.height, data |-> item.img,
                       ok |-> r.ok]
           /\ calls' = Append(calls, Call(item.img, item.size.width,
                                          item.size.height, r.ok))
           /\ pc' = IF r.ok THEN "insert_all" ELSE "retry"
    /\ prev' = tree
    /\ UNCHANGED <<input, padding, img_collection, data, flattened, total_bb,
                   img_packed, result>>

\* insert_all: an insert returned false, start again on a larger canvas
Retry ==
    /\ pc = "retry"
    /\ \E c \in GrownCanvas(tree.bb) : tree' = New(c[1], c[2])
    /\ calls' = <<>>
    /\ last' = [op |-> "new"]
    /\ prev' = tree
    /\ pc' = "insert_all"
    /\ UNCHANGED <<input, padding, img_collection, data, flattened, total_bb,
                   img_packed, result>>

\* insert_all: the canvas cannot grow any more, pack returns the error
GiveUp ==
    /\ pc = "retry"
    /\ GrownCanvas(tree.bb) = {}
    /\ result' = "CanvasTooLarge"
    /\ pc' = "done"
    /\ UNCHANGED <<tree, calls, last, prev, input, padding, img_collection,
                   data, flattened, total_bb, img_packed>>

\* pack: flatten, size the sheet, blit every image
PackFinish ==
    /\ pc = "insert_all"
    /\ Len(calls) = Len(data)
    /\ flattened' = flatten(tree)
    /\ last' = [op |-> "flatten", out |-> flatten(tree)]
    /\ prev' = tree
    /\ total_bb' = get_total_bounding_box(tree)
    /\ img_packed' = blit_all(RgbaImage_new(total_bb'.width + padding,
                                            total_bb'.height + padding),
                              flattened', padding)
    /\ result' = "Ok"
    /\ pc' = "done"
    /\ UNCHANGED <<tree, calls, input, padding, img_collection, data>>

NextPack ==
    \/ Collect
    \/ PackBegin
    \/ InsertNext
    \/ Retry
    \/ GiveUp
    \/ PackFinish

SpecPack == InitPack /\ [][NextPack]_vars

Next ==
    \/ \E width \in Sizes, height \in Sizes : Insert(width, height)
    \/ Flatten

Spec == Init /\ [][Next]_vars

\* ------------------------------------------- direct use of BoundingBox
\* the rectangles handed to the union, as in the bb_*_add tests
Rects ==
    {BoundingBox(x, y, width, height) :
        x \in 0..MaxCoord, y \in 0..MaxCoord,
        width \in 0..MaxExt, height \in 0..MaxExt}

InitGeom ==
    /\ tree = Leaf(BoundingBox(0, 0, 0, 0))    \* no tree
    /\ calls = <<>>
    /\ \E self \in Rects, v \in Rects :
          last = [op |-> "operands", self |-> self, v |-> v]
    /\ prev = tree
    /\ pc = "geom"
    /\ input = <<>>
    /\ padding = 0
    /\ img_collection = NoCollection
    /\ data = <<>>
    /\ flattened = <<>>
    /\ total_bb = BoundingBox(0, 0, 0, 0)
    /\ img_packed = NoImage
    /\ result = "pending"

\* &self + &v
AddCall ==
    /\ pc = "geom"
    /\ last' = [op |-> "add", self |-> last.self, v |-> last.v,
                out |-> Add(last.self, last.v)]
    /\ pc' = "added"
    /\ UNCHANGED <<tree, calls, prev, input, padding, img_collection,
                   data, flattened, total_bb, img_packed, result>>

NextGeom == AddCall

SpecGeom == InitGeom /\ [][NextGeom]_vars

\* ------------------------------ direct use of Tree2d with any u32 at all
U32 == 0..U32Max

InitAny ==
    /\ \E width \in U32, height \in U32 : tree = New(width, height)
    /\ calls = <<>>
    /\ last = [op |-> "new"]
    /\ prev = tree
    /\ pc = "any"
    /\ input = <<>>
    /\ padding = 0
    /\ img_collection = NoCollection
    /\ data = <<>>
    /\ flattened = <<>>
    /\ total_bb = BoundingBox(0, 0, 0, 0)
    /\ img_packed = NoImage
    /\ result = "pending"

\* insert with a width and a height of any value, 0 and more than the canvas
\* included
InsertAny(width, height) ==
    /\ pc = "any"
    /\ Len(calls) < MaxAnyInserts
    /\ LET d == Len(calls) + 1
           r == insert(tree, width, height, d)
       IN  /\ tree' = r.tree
           /\ last' = [op |-> "insert", width |-> width, height |-> height,
                       data |-> d, ok |-> r.ok]
           /\ calls' = Append(calls, Call(d, width, height, r.ok))
    /\ prev' = tree
    /\ UNCHANGED <<pc, input, padding, img_collection, data, flattened,
                   total_bb, img_packed, result>>

NextAny == \E width \in U32, height \in U32 : InsertAny(width, height)

SpecAny == InitAny /\ [][NextAny]_vars

\* ------------------------- direct use of Tree2d, longer runs of inserts
SeqSizes == 1..MaxSeqItem

InitSeq ==
    /\ \E width \in 1..MaxSeqCanvas, height \in 1..MaxSeqCanvas :
          tree = New(width, height)
    /\ calls = <<>>
    /\ last = [op |-> "new"]
    /\ prev = tree
    /\ pc = "seq"
    /\ input = <<>>
    /\ padding = 0
    /\ img_collection = NoCollection
    /\ data = <<>>
    /\ flattened = <<>>
    /\ total_bb = BoundingBox(0, 0, 0, 0)
    /\ img_packed = NoImage
    /\ result = "pending"

InsertSeq(width, height) ==
    /\ pc = "seq"
    /\ Len(calls) < MaxSeqInserts
    /\ LET d == Len(calls) + 1
           r == insert(tree, width, height, d)
       IN  /\ tree' = r.tree
           /\ last' = [op |-> "insert", width |-> width, height |-> height,
                       data |-> d, ok |-> r.ok]
           /\ calls' = Append(calls, Call(d, width, height, r.ok))
    /\ prev' = tree
    /\ UNCHANGED <<pc, input, padding, img_collection, data, flattened,
                   total_bb, img_packed, result>>

NextSeq == \E width \in SeqSizes, height \in SeqSizes : InsertSeq(width, height)

SpecSeq == InitSeq /\ [][NextSeq]_vars

\* ------------------------------------------------- vocabulary of the claims
RECURSIVE Nodes(_)
Nodes(t) ==
    IF t.kind = "Leaf" THEN {} ELSE {t} \cup Nodes(t.right) \cup Nodes(t.down)

RECURSIVE Leaves(_)
Leaves(t) ==
    IF t.kind = "Leaf" THEN {t} ELSE Leaves(t.right) \cup Leaves(t.down)

Payloads(t) == {n.data : n \in Nodes(t)}

Fits(bb, width, height) == bb.width >= width /\ bb.height >= height

\* how far apart two rectangles are along the axis that separates them most;
\* negative when their interiors intersect, 0 when they only share a border
XGap(a, b) == Max(a.x - (b.x + b.width), b.x - (a.x + a.width))
YGap(a, b) == Max(a.y - (b.y + b.height), b.y - (a.y + a.height))
Gap(a, b) == Max(XGap(a, b), YGap(a, b))

IntersectionArea(a, b) ==
    Max(0, Min(a.x + a.width, b.x + b.width) - Max(a.x, b.x))
    * Max(0, Min(a.y + a.height, b.y + b.height) - Max(a.y, b.y))

Overlap(a, b) == IntersectionArea(a, b) > 0

\* the insert call that placed payload d
CallOf(d) == calls[CHOOSE i \in DOMAIN calls : calls[i].data = d /\ calls[i].ok]

\* the rectangle an item occupies: the corner of its node, the size of its insert
Footprint(n) ==
    [x |-> n.bb.x, y |-> n.bb.y,
     width |-> CallOf(n.data).width, height |-> CallOf(n.data).height]

\* the image inside a footprint made of (width + p, height + p)
Image(n, p) ==
    [x |-> n.bb.x + p, y |-> n.bb.y + p,
     width |-> CallOf(n.data).width - p, height |-> CallOf(n.data).height - p]

Padded(n, p) == CallOf(n.data).width > p /\ CallOf(n.data).height > p

Flattened == last.op = "flatten"
Inserted == last.op = "insert"

\* C1: any two distinct entries of flatten() have rectangles whose
\* intersection has zero area.
C1_FlattenNoOverlap ==
    Flattened =>
        \A i, j \in DOMAIN last.out :
            i # j => ~Overlap(last.out[i].bb, last.out[j].bb)

\* C2 as stated: the item footprints are pairwise non-overlapping, and with
\* insertion size (width + padding, height + padding) two placed images never
\* overlap or touch, whatever the padding.
C2_FootprintsNeverTouch ==
    \A a, b \in Nodes(tree) :
        a # b =>
            /\ ~Overlap(Footprint(a), Footprint(b))
            /\ \A p \in 0..MaxItem :
                   Padded(a, p) /\ Padded(b, p) =>
                       Gap(Image(a, p), Image(b, p)) >= 1

\* C2 amended: the item footprints are pairwise non-overlapping, and with
\* insertion size (width + padding, height + padding) two placed images never
\* overlap and are at least padding pixels apart, so they never touch when
\* padding >= 1.
C2_FootprintsDisjoint ==
    \A a, b \in Nodes(tree) :
        a # b =>
            /\ ~Overlap(Footprint(a), Footprint(b))
            /\ \A p \in 0..MaxItem :
                   Padded(a, p) /\ Padded(b, p) =>
                       Gap(Image(a, p), Image(b, p)) >= p

C2_Witness ==
    \E a, b \in Nodes(tree) :
        /\ a # b
        /\ Padded(a, 1) /\ Padded(b, 1)
        /\ Gap(Footprint(a), Footprint(b)) = 0

\* C3: with distinct payloads, flatten() holds each payload whose insert
\* returned true exactly once and no payload whose insert returned false; its
\* length is the number of inserts that returned true.
C3_Conservation ==
    Flattened =>
        /\ \A c \in DOMAIN calls :
               Cardinality({i \in DOMAIN last.out :
                               last.out[i].data = calls[c].data})
                   = IF calls[c].ok THEN 1 ELSE 0
        /\ Len(last.out) = Cardinality({c \in DOMAIN calls : calls[c].ok})

C3_Witness ==
    /\ Flattened
    /\ Len(last.out) >= 2
    /\ \E d \in DOMAIN calls : ~calls[d].ok

\* C4: insert returns true iff some Free leaf of the tree can contain the
\* item, and a Used node whose bb cannot contain an item has no Free leaf
\* below it that can.
C4_InsertIffLeafFits ==
    /\ Inserted =>
           (last.ok <=> \E l \in Leaves(prev) :
                            Fits(l.bb, last.width, last.height))
    /\ \A n \in Nodes(tree) : \A width, height \in 0..(MaxItem + 1) :
           ~Fits(n.bb, width, height) =>
               \A l \in Leaves(n) : ~Fits(l.bb, width, height)

C4_Witness ==
    /\ Inserted
    /\ ~last.ok
    /\ prev.kind = "Node"
    /\ Fits(prev.bb, last.width, last.height)
    /\ \E n \in Nodes(prev) : ~Fits(n.bb, last.width, last.height)

\* C5: an insert that returns false leaves the whole tree as it was,
\* also when the first-tried child failed before the second was tried.
C5_FailedInsertNoMutation ==
    Inserted /\ ~last.ok => tree = prev

C5_Witness ==
    /\ Inserted
    /\ ~last.ok
    /\ prev.kind = "Node"
    /\ Fits(prev.bb, last.width, last.height)
    /\ prev.right.kind = "Node" \/ prev.down.kind = "Node"
    /\ tree = prev

\* C6: partitioning a Free leaf (x,y,W,H) for an item w <= W, h <= H gives a
\* Used node with the same bb and two Free children: right = (x+w, y, W-w, h)
\* and down = (x, y+h, W, H-h) if H-h > W-w, else right = (x+w, y, W-w, H) and
\* down = (x, y+h, w, H-h).
C6_PartitionShape ==
    /\ \A n \in Nodes(tree) :
           LET w == CallOf(n.data).width
               h == CallOf(n.data).height
               x == n.bb.x
               y == n.bb.y
               W == n.bb.width
               H == n.bb.height
           IN  /\ w <= W /\ h <= H
               /\ IF H - h > W - w
                  THEN /\ n.right.bb = [x |-> x + w, y |-> y,
                                        width |-> W - w, height |-> h]
                       /\ n.down.bb = [x |-> x, y |-> y + h,
                                       width |-> W, height |-> H - h]
                  ELSE /\ n.right.bb = [x |-> x + w, y |-> y,
                                        width |-> W - w, height |-> H]
                       /\ n.down.bb = [x |-> x, y |-> y + h,
                                       width |-> w, height |-> H - h]
    /\ Inserted /\ last.ok =>
           \E n \in Nodes(tree) :
               /\ n.data = last.data
               /\ n.right.kind = "Leaf" /\ n.down.kind = "Leaf"
               /\ \E l \in Leaves(prev) : l.bb = n.bb

C6_Witness ==
    /\ Inserted /\ last.ok /\ last.width = 2 /\ last.height = 2
    /\ prev = [kind |-> "Leaf",
               bb |-> [x |-> 0, y |-> 0, width |-> 4, height |-> 4]]
    /\ tree.right.bb = [x |-> 2, y |-> 0, width |-> 2, height |-> 4]
    /\ tree.down.bb = [x |-> 0, y |-> 2, width |-> 2, height |-> 2]

\* C7: in a successful pack every rectangle of flatten() lies within
\* [0, 0, final_width, final_height], final_width = total_bounding_box.width
\* + padding and final_height likewise, and every image blitted at
\* (rect.x + padding, rect.y + padding) lies entirely inside that sheet.
C7_Containment ==
    result = "Ok" =>
        LET final_width == total_bb.width + padding
            final_height == total_bb.height + padding
        IN  /\ img_packed.width = final_width
            /\ img_packed.height = final_height
            /\ \A i \in DOMAIN flattened :
                   LET r == flattened[i].bb
                       img == ImageOf(flattened[i].data)
                   IN  /\ r.x >= 0 /\ r.y >= 0
                       /\ r.x + r.width <= final_width
                       /\ r.y + r.height <= final_height
                       /\ r.x + padding + img.width <= final_width
                       /\ r.y + padding + img.height <= final_height

C7_Witness ==
    /\ result = "Ok"
    /\ padding >= 1
    /\ Len(flattened) >= 2
    /\ \E i \in DOMAIN flattened : flattened[i].bb.x > 0

\* C8: packing a single image of size w x h with padding p gives a sheet of
\* exactly (w + 2p) x (h + 2p) pixels in which the image occupies columns
\* [p, p+w) and rows [p, p+h) and every other pixel is empty.
C8_SingleImageSheet ==
    result = "Ok" /\ Len(input) = 1 =>
        img_packed =
            [width |-> input[1].width + 2 * padding,
             height |-> input[1].height + 2 * padding,
             pixels |-> (padding..(padding + input[1].width - 1))
                        \X (padding..(padding + input[1].height - 1))]

\* C9: on a successful pack the total bounding box is the smallest rectangle
\* containing all placement rectangles, never a larger one.
SetMin(S) == CHOOSE m \in S : \A e \in S : m <= e
SetMax(S) == CHOOSE m \in S : \A e \in S : m >= e

Enclosing(flat) ==
    LET x0 == SetMin({flat[i].bb.x : i \in DOMAIN flat})
        y0 == SetMin({flat[i].bb.y : i \in DOMAIN flat})
        x1 == SetMax({flat[i].bb.x + flat[i].bb.width : i \in DOMAIN flat})
        y1 == SetMax({flat[i].bb.y + flat[i].bb.height : i \in DOMAIN flat})
    IN  [x |-> x0, y |-> y0, width |-> x1 - x0, height |-> y1 - y0]

Pos(d) == CHOOSE i \in DOMAIN last.out : last.out[i].data = d

C10_FlattenPreorder ==
    Flattened =>
        /\ Len(last.out) = Cardinality(Nodes(tree))
        /\ \A n \in Nodes(tree) :
               /\ \E i \in DOMAIN last.out :
                      last.out[i] = [data |-> n.data, bb |-> n.bb]
               /\ \A d \in Payloads(n.right) \cup Payloads(n.down) :
                      Pos(n.data) < Pos(d)
               /\ \A r \in Payloads(n.right), d \in Payloads(n.down) :
                      Pos(r) < Pos(d)

C10_Witness ==
    /\ Flattened
    /\ \E n \in Nodes(tree) : n.right.kind = "Node" /\ n.down.kind = "Node"

Area(img) == img.width * img.height

C12_SortedStableInsertion ==
    pc # "load" =>
        LET s == img_collection.named_images
        IN  /\ Len(s) = Len(input)
            /\ {s[i].name : i \in DOMAIN s} = DOMAIN input
            /\ \A i \in DOMAIN s : s[i] = input[s[i].name]
            /\ \A i, j \in DOMAIN s :
                   i < j =>
                       /\ Area(s[i]) >= Area(s[j])
                       /\ Area(s[i]) = Area(s[j]) => s[i].name < s[j].name
            /\ \A k \in DOMAIN calls : calls[k].data = s[k].name

C12_Witness ==
    /\ Len(input) = 2
    /\ input[1] # input[2]
    /\ Area(input[1]) = Area(input[2])
    /\ Len(calls) = 2
    /\ calls[2].ok

\* C13: new(width, height) gives a single Free root with rectangle
\* (0, 0, width, height) where width > 0 and height > 0; no tree comes out
\* of a new with width = 0 or height = 0.
C13_NewRejectsZeroCanvas ==
    last.op = "new" =>
        /\ tree.kind = "Leaf"
        /\ tree.bb.x = 0 /\ tree.bb.y = 0
        /\ tree.bb.width > 0 /\ tree.bb.height > 0

\* C14: pack always terminates; after an insert returned false the tree is
\* discarded and the whole sequence is re-run from the first sorted item on
\* a larger canvas, and pack returns either Ok with every item placed on a
\* canvas large enough for each, or CanvasTooLarge; no result drops an item.
AllPlaced ==
    /\ Len(flattened) = Len(input)
    /\ \A i \in DOMAIN input :
           /\ \E k \in DOMAIN flattened : flattened[k].data = i
           /\ tree.bb.width >= input[i].width + padding
           /\ tree.bb.height >= input[i].height + padding

\* a natural number that every step of pack makes smaller: the room the
\* canvas has left to grow first, the steps left on this canvas second
StepsPerCanvas == Len(input) + 3
Rank ==
    CASE pc = "done" -> 0
      [] pc = "load" -> (2 * MaxSheet + 1) * StepsPerCanvas + 2
      [] pc = "pack" -> (2 * MaxSheet + 1) * StepsPerCanvas + 1
      [] pc = "retry" ->
             (2 * MaxSheet - tree.bb.width - tree.bb.height) * StepsPerCanvas + 1
      [] pc = "insert_all" ->
             (2 * MaxSheet - tree.bb.width - tree.bb.height) * StepsPerCanvas
             + (Len(data) - Len(calls)) + 2

\* before it returns, pack always has a next step: the two steps of
\* insert_all have no other guard than the position in data
NotStuck ==
    CASE pc = "done" -> TRUE
      [] pc = "insert_all" -> Len(calls) <= Len(data)
      [] OTHER -> ENABLED (Collect \/ PackBegin \/ Retry \/ GiveUp)

\* termination: the rank goes down with every step and cannot go below 0,
\* and pack has a step to take until it has returned
C14_PackTerminates ==
    /\ [][Rank' < Rank]_vars
    /\ [](Rank >= 0)
    /\ []NotStuck
    /\ [](pc = "done" => result \in {"Ok", "CanvasTooLarge"})
    /\ [](result = "Ok" => AllPlaced)
    /\ [][pc = "retry" /\ pc' = "insert_all" =>
             /\ calls' = <<>>
             /\ tree'.kind = "Leaf"
             /\ tree'.bb.width >= tree.bb.width
             /\ tree'.bb.height >= tree.bb.height
             /\ tree'.bb # tree.bb]_vars

C14_Witness ==
    /\ pc = "insert_all"
    /\ last.op = "new"
    /\ prev.bb.width > 0
    /\ Len(data) >= 1

\* C15: the union of two rectangles is the smallest rectangle containing
\* both, with x = min of the x's, y = min of the y's, width = max of the right
\* edges - x, height = max of the bottom edges - y; a + b = b + a, and
\* a + a = a.
Encloses(r, s) ==
    /\ r.x <= s.x /\ s.x + s.width <= r.x + r.width
    /\ r.y <= s.y /\ s.y + s.height <= r.y + r.height

\* a rectangle encloses another iff it does so on each axis, so the smallest
\* enclosing rectangle is the smallest enclosing interval on each axis
Intervals ==
    {<<lo, hi>> \in (0..MaxCoord) \X (0..(MaxCoord + MaxExt)) : lo <= hi}

Smallest(lo, hi, alo, ahi, blo, bhi) ==
    \A i \in Intervals :
        i[1] <= alo /\ i[1] <= blo /\ ahi <= i[2] /\ bhi <= i[2]
            => i[1] <= lo /\ hi <= i[2]

C15_UnionLaws ==
    last.op = "add" =>
        LET a == last.self
            b == last.v
            u == last.out
        IN  /\ u.x = SetMin({a.x, b.x})
            /\ u.y = SetMin({a.y, b.y})
            /\ u.width = SetMax({a.x + a.width, b.x + b.width}) - u.x
            /\ u.height = SetMax({a.y + a.height, b.y + b.height}) - u.y
            /\ Encloses(u, a) /\ Encloses(u, b)
            /\ Smallest(u.x, u.x + u.width,
                        a.x, a.x + a.width, b.x, b.x + b.width)
            /\ Smallest(u.y, u.y + u.height,
                        a.y, a.y + a.height, b.y, b.y + b.height)
            /\ Add(b, a) = u
            /\ a = b => u = a

\* two rectangles a gap apart, the second one first
C15_Witness ==
    /\ last.op = "add"
    /\ last.v.x + last.v.width < last.self.x
    /\ last.self.y + last.self.height < last.v.y
    /\ last.self.width > 0 /\ last.v.height > 0
    /\ last.out.width > last.self.width + last.v.width

\* the nodes that prev and tree have at the same position, pairwise
RECURSIVE Corr(_, _)
Corr(p, t) ==
    IF p.kind = "Leaf" \/ t.kind = "Leaf"
    THEN {}
    ELSE {<<p, t>>} \cup Corr(p.right, t.right) \cup Corr(p.down, t.down)

\* the Used nodes the last insert went through on its way to the leaf it took
Descended == {c \in Corr(prev, tree) : c[1] # c[2]}

\* a subtree can take the item iff one of its Free leaves can
Hosts(sub, width, height) == \E l \in Leaves(sub) : Fits(l.bb, width, height)

\* C16: at a Used node with exactly one Used child, the Used child is tried
\* first: when the Used child can take the item, the Free child is left as
\* it was.
C16_UsedChildFirst ==
    Inserted /\ last.ok =>
        \A c \in Descended :
            LET p == c[1]
                t == c[2]
            IN  /\ (p.right.kind = "Node" /\ p.down.kind = "Leaf"
                    /\ Hosts(p.right, last.width, last.height))
                       => t.down = p.down
                /\ (p.right.kind = "Leaf" /\ p.down.kind = "Node"
                    /\ Hosts(p.down, last.width, last.height))
                       => t.right = p.right

\* C17: at a Used node whose children are both Free or both Used, right is
\* tried before down: when right can take the item it goes under right and
\* down is left as it was. After 3x3 into a 4x4 canvas, right = (3,0,1,4) and
\* down = (0,3,3,1), and a following 1x1 is placed at (3,0) in right.
SameVariant(p) == p.right.kind = p.down.kind

C17_Example ==
    LET a == insert(New(4, 4), 3, 3, 1)
        b == insert(a.tree, 1, 1, 2)
    IN  /\ a.ok /\ b.ok
        /\ a.tree.right = Leaf([x |-> 3, y |-> 0, width |-> 1, height |-> 4])
        /\ a.tree.down = Leaf([x |-> 0, y |-> 3, width |-> 3, height |-> 1])
        /\ b.tree.right.kind = "Node" /\ b.tree.right.data = 2
        /\ b.tree.right.bb.x = 3 /\ b.tree.right.bb.y = 0
        /\ b.tree.down = a.tree.down

\* 2x2, 1x1, 1x1 into 4x4 leave both children of the root Used, each with
\* room for a 1x1: the next 1x1 goes under right
C17_ExampleBothUsed ==
    LET a == insert(New(4, 4), 2, 2, 1)
        b == insert(a.tree, 1, 1, 2)
        c == insert(b.tree, 1, 1, 3)
        e == insert(c.tree, 1, 1, 4)
    IN  /\ c.tree.right.kind = "Node" /\ c.tree.down.kind = "Node"
        /\ Hosts(c.tree.right, 1, 1) /\ Hosts(c.tree.down, 1, 1)
        /\ e.ok
        /\ e.tree.down = c.tree.down
        /\ Payloads(e.tree.right) = {2, 4}

RectArea(r) == r.width * r.height

Inside(r, bb) ==
    /\ bb.x <= r.x /\ r.x + r.width <= bb.x + bb.width
    /\ bb.y <= r.y /\ r.y + r.height <= bb.y + bb.height

C18_NodeIsPartitioned ==
    \A n \in Nodes(tree) :
        LET f == Footprint(n)
            r == n.right.bb
            w == n.down.bb
        IN  /\ IntersectionArea(f, r) = 0
            /\ IntersectionArea(f, w) = 0
            /\ IntersectionArea(r, w) = 0
            /\ Inside(f, n.bb) /\ Inside(r, n.bb) /\ Inside(w, n.bb)
            /\ RectArea(f) + RectArea(r) + RectArea(w) = RectArea(n.bb)

\* a node split each way, both with an item smaller than bb on both axes,
\* and a node one of whose children has been split in turn
C18_Witness ==
    /\ \E n \in Nodes(tree) :
           /\ n.down.bb.width = n.bb.width
           /\ n.right.bb.height < n.bb.height /\ n.right.bb.width > 0
    /\ \E n \in Nodes(tree) :
           /\ n.right.bb.height = n.bb.height
           /\ n.down.bb.width < n.bb.width /\ n.down.bb.height > 0
    /\ \E n \in Nodes(tree) : n.right.kind = "Node" \/ n.down.kind = "Node"

\* C19: a successful insert replaces exactly one Free leaf by a Used node
\* with the same bb and two Free children and leaves every other node as it
\* was; a Used node stays a Used node at its position, with its bb and its
\* payload, over every step.
RECURSIVE OneLeafReplaced(_, _, _)
OneLeafReplaced(p, t, d) ==
    IF p.kind = "Leaf"
    THEN /\ t.kind = "Node" /\ t.bb = p.bb /\ t.data = d
         /\ t.right.kind = "Leaf" /\ t.down.kind = "Leaf"
    ELSE /\ t.kind = "Node" /\ t.bb = p.bb /\ t.data = p.data
         /\ \/ t.right = p.right /\ OneLeafReplaced(p.down, t.down, d)
            \/ t.down = p.down /\ OneLeafReplaced(p.right, t.right, d)

\* the Used nodes of a tree: where they are, their bb and their payload
RECURSIVE Placed(_, _)
Placed(t, path) ==
    IF t.kind = "Leaf"
    THEN {}
    ELSE {<<path, t.bb, t.data>>}
         \cup Placed(t.right, Append(path, "right"))
         \cup Placed(t.down, Append(path, "down"))

C19_OneLeafReplaced ==
    /\ [](Inserted /\ last.ok => OneLeafReplaced(prev, tree, last.data))
    /\ [][/\ Placed(tree, <<>>) \subseteq Placed(tree', <<>>)
          /\ Cardinality(Placed(tree', <<>>))
                 <= Cardinality(Placed(tree, <<>>)) + 1]_vars

\* the leaf taken was below the root, next to a subtree that was left alone
C19_Witness ==
    /\ Inserted /\ last.ok
    /\ Cardinality(Nodes(prev)) = 2
    /\ Cardinality(Nodes(tree)) = 3
    /\ tree.right.kind = "Node" /\ tree.down.kind = "Node"

\* C20: with any u32 width and height, 0 and more than the canvas included,
\* no u32 operation of insert fails: a node is only made where
\* width <= bb.width and height <= bb.height, so the remainders do not
\* underflow, and bb.x + width and bb.y + height stay within the canvas, so
\* they do not overflow.
InU32(bb) ==
    /\ bb.x \in U32 /\ bb.y \in U32
    /\ bb.width \in U32 /\ bb.height \in U32

C20_NoArithmeticFailure ==
    /\ \A t \in Nodes(tree) \cup Leaves(tree) : InU32(t.bb)
    /\ \A n \in Nodes(tree) :
           LET f == Footprint(n)
           IN  /\ f.width <= n.bb.width /\ f.height <= n.bb.height
               /\ n.right.bb.width = n.bb.width - f.width
               /\ n.down.bb.height = n.bb.height - f.height
               /\ n.bb.x + f.width <= tree.bb.width
               /\ n.bb.y + f.height <= tree.bb.height
               /\ n.right.bb.x = n.bb.x + f.width
               /\ n.down.bb.y = n.bb.y + f.height
    /\ tree.bb.width <= U32Max /\ tree.bb.height <= U32Max

\* an item as wide as the largest canvas and of height 0 was placed, then
\* an item higher than the canvas was refused
C20_Witness ==
    /\ Len(calls) = 2
    /\ calls[1].ok /\ calls[1].width = U32Max /\ calls[1].height = 0
    /\ tree.right.bb.x = U32Max
    /\ Inserted /\ ~last.ok /\ last.height > tree.bb.height

\* C21: failure is permanent and monotone: if insert(w, h) returns false on
\* a tree, then after any further inserts on that tree insert(w2, h2) with
\* w2 >= w and h2 >= h returns false too.
C21_FailurePermanent ==
    \A w \in SeqSizes, h \in SeqSizes :
        [](Inserted /\ ~last.ok /\ last.width = w /\ last.height = h
              => [](Inserted /\ last.width >= w /\ last.height >= h
                        => ~last.ok))

\* on a tree with an item in it an insert was refused, another insert
\* succeeded after that, and a size that fits the canvas was refused again
C21_Witness ==
    /\ Len(calls) = 4
    /\ calls[1].ok /\ ~calls[2].ok /\ calls[3].ok /\ ~calls[4].ok
    /\ Inserted /\ Fits(tree.bb, last.width, last.height)

\* C22: once an insert into new(W, H) has succeeded, the first entry of
\* flatten() has the rectangle (0, 0, W, H), every other entry's rectangle
\* lies inside it, and the union of all the rectangles is the whole initial
\* canvas, whatever the sizes of the items. The rectangle of the root is
\* the canvas of new at the start and is the same after every step.
C22_FlattenCoversCanvas ==
    /\ [][tree'.bb = tree.bb]_vars
    /\ [](/\ tree.bb.x = 0 /\ tree.bb.y = 0
          /\ Flattened /\ (\E k \in DOMAIN calls : calls[k].ok) =>
                 /\ Len(last.out) >= 1
                 /\ last.out[1].bb = tree.bb
                 /\ \A i \in DOMAIN last.out : Inside(last.out[i].bb, tree.bb)
                 /\ Enclosing(last.out) = tree.bb)

\* two items that leave part of the canvas free
C22_Witness ==
    /\ Flattened
    /\ Len(last.out) >= 2
    /\ \E l \in Leaves(tree) : RectArea(l.bb) > 0
    /\ last.out[1].bb = tree.bb

====
